---- MODULE Spec2Model ----
(***************************************************************************)
(* A model of src/src/TSPGeneticAlgorithm.tsx: the genetic-algorithm       *)
(* operators (tour length, fitness, roulette selection, order crossover,   *)
(* swap mutation) and the React component that drives them (reset,         *)
(* start/pause, the interval timer that calls gaIteration, the render of   *)
(* the statistics panel).                                                  *)
(*                                                                         *)
(* Numbers.  Math.random() is a draw from RandomDraws, in hundredths       *)
(* (0 is 0.00, 99 is 0.99); the two rates of the configuration are in      *)
(* hundredths too.  City coordinates are integers chosen so that every     *)
(* distance Math.hypot returns is an integer.  A fitness 1/length is the   *)
(* fraction [num |-> 1, den |-> length]; den = 0 is JavaScript's Infinity. *)
(* Floating-point rounding is not modelled.                                *)
(***************************************************************************)
EXTENDS Integers, Sequences, FiniteSets, TLC

(***************************************************************************)
(* Bounds of the model.                                                    *)
(***************************************************************************)
\* the larger of the two city counts the cityCount input is given
NCities == 4
\* the larger of the two population sizes the populationSize input is given
NPop == 2
\* generation steps explored from generation 0
StepsFromZero == 1
\* generation steps explored from the last generation below the ceiling
StepsNearCeiling == 2
\* interval timers alive at the same time
MaxTimers == 2

(***************************************************************************)
(* Program constants.                                                      *)
(***************************************************************************)
\* gaIteration: if (currentGen >= 1000)
MaxGenerations == 1000

\* outcomes of Math.random(), in hundredths: a value of [0, 1)
RandomDraws == {0, 30, 60, 99}

Null == [id |-> -1, x |-> 0, y |-> 0]

(***************************************************************************)
(* Cities.                                                                 *)
(***************************************************************************)
\* The corners of a 3 x 4 rectangle inside the canvas margins [20, 780) x
\* [20, 580): the sides are 3 and 4 and the diagonal is 5.
Corner(k) ==
  CASE k = 0 -> [x |-> 20, y |-> 20]
    [] k = 1 -> [x |-> 23, y |-> 20]
    [] k = 2 -> [x |-> 23, y |-> 24]
    [] OTHER -> [x |-> 20, y |-> 24]

\* The coordinate draws of generateCities: draw 0 puts city id on corner
\* id % 4, so the ids walk the rectangle's border; draw 1 exchanges the
\* corners of the cities with id % 4 = 2 and id % 4 = 3.
CoordDraws == {0}

generateCities(count, d) ==
  [i \in 1..count |->
     LET id == i - 1
         c  == Corner((IF d = 1 /\ id % 4 \in {2, 3} THEN 5 - (id % 4) ELSE id) % 4)
     IN  [id |-> id, x |-> c.x, y |-> c.y]]

Abs(a) == IF a < 0 THEN -a ELSE a

\* Math.hypot on the model's coordinates (every value is a perfect square)
Hypot(dx, dy) ==
  CHOOSE r \in 0..(Abs(dx) + Abs(dy)) : r * r = dx * dx + dy * dy

RECURSIVE PathLengthFrom(_, _)
PathLengthFrom(path, i) ==
  IF i > Len(path) THEN 0
  ELSE LET curr == path[i]
           next == path[(i % Len(path)) + 1]
       IN  Hypot(next.x - curr.x, next.y - curr.y) + PathLengthFrom(path, i + 1)

calculatePathLength(path) == PathLengthFrom(path, 1)

\* 1 / length; 1 / 0 is Infinity
calculateFitness(length) == [num |-> 1, den |-> length]

Individual(path) ==
  LET length == calculatePathLength(path)
  IN  [path |-> path, fitness |-> calculateFitness(length), length |-> length]

(***************************************************************************)
(* Fractions: the arithmetic of the fitness values.                        *)
(***************************************************************************)
IsInf(f) == f.den = 0

FracAdd(f, g) ==
  IF IsInf(f) \/ IsInf(g) THEN [num |-> 1, den |-> 0]
  ELSE [num |-> f.num * g.den + g.num * f.den, den |-> f.den * g.den]

\* the sign of f - g; Infinity - Infinity is NaN, which a sort comparator
\* and a comparison with 0 both treat as "not less, not greater"
FracCmp(f, g) ==
  IF IsInf(f) /\ IsInf(g) THEN 0
  ELSE IF IsInf(f) THEN 1
  ELSE IF IsInf(g) THEN -1
  ELSE LET l == f.num * g.den
           r == g.num * f.den
       IN  IF l > r THEN 1 ELSE IF l < r THEN -1 ELSE 0

(***************************************************************************)
(* Array.prototype.sort: stable (ECMAScript 2019), by insertion.           *)
(* cmp(a, b) > 0 puts b before a.                                          *)
(***************************************************************************)
\* the comparator (a, b) => a.length - b.length ("length") or
\* (a, b) => b.fitness - a.fitness ("fitness")
Compare(by, a, b) ==
  IF by = "length" THEN a.length - b.length ELSE FracCmp(b.fitness, a.fitness)

RECURSIVE InsertSorted(_, _, _)
InsertSorted(sorted, e, by) ==
  IF sorted = <<>> THEN <<e>>
  ELSE LET last == sorted[Len(sorted)]
       IN  IF Compare(by, last, e) > 0
           THEN Append(InsertSorted(SubSeq(sorted, 1, Len(sorted) - 1), e, by), last)
           ELSE Append(sorted, e)

RECURSIVE SortFrom(_, _, _)
SortFrom(arr, acc, by) ==
  IF arr = <<>> THEN acc
  ELSE SortFrom(Tail(arr), InsertSorted(acc, Head(arr), by), by)

Sort(arr, by) == SortFrom(arr, <<>>, by)

(***************************************************************************)
(* initPopulation.  [...cities].sort(() => Math.random() - 0.5) returns    *)
(* the cities in an order the random comparator decides; ShuffleDraws are  *)
(* the orders the model draws: the cities as they are, and with the second *)
(* and third exchanged.                                                    *)
(***************************************************************************)
SwapAt(path, i, j) ==
  [k \in 1..Len(path) |->
     IF k = i THEN path[j] ELSE IF k = j THEN path[i] ELSE path[k]]

ShuffleDraws(c) ==
  LET n == Len(c)
  IN  {c} \cup (IF n >= 3 THEN {SwapAt(c, 2, 3)} ELSE {})

\* shuffles[i] is the order the i-th sort call returned
initPopulation(shuffles) == [i \in 1..Len(shuffles) |-> Individual(shuffles[i])]

InitPopulationDraws(c, size) ==
  {initPopulation(s) : s \in [1..size -> ShuffleDraws(c)]}

(***************************************************************************)
(* select: roulette wheel.  r is the draw of Math.random().                *)
(***************************************************************************)
RECURSIVE SumFitness(_, _)
SumFitness(pop, i) ==
  IF i > Len(pop) THEN [num |-> 0, den |-> 1]
  ELSE FracAdd(pop[i].fitness, SumFitness(pop, i + 1))

\* cumulativeFitness >= randomNum, where randomNum = (r / 100) * total.
\* With an infinite total, randomNum is Infinity, or NaN when r = 0, and
\* every comparison with NaN is false.
ReachedRandomNum(cum, r, total) ==
  IF IsInf(total) THEN r # 0 /\ IsInf(cum)
  ELSE cum.num * total.den * 100 >= r * total.num * cum.den

RECURSIVE SelectWalk(_, _, _, _, _)
SelectWalk(pop, i, cum, r, total) ==
  IF i > Len(pop) THEN pop[1]
  ELSE LET cumulativeFitness == FracAdd(cum, pop[i].fitness)
       IN  IF ReachedRandomNum(cumulativeFitness, r, total) THEN pop[i]
           ELSE SelectWalk(pop, i + 1, cumulativeFitness, r, total)

select(pop, r) ==
  SelectWalk(pop, 1, [num |-> 0, den |-> 1], r, SumFitness(pop, 1))

(***************************************************************************)
(* crossover: order crossover.  r, rs and re are the three draws of        *)
(* Math.random(): the rate test, start and end.                            *)
(***************************************************************************)
\* Math.floor(Math.random() * n)
RandomIndex(r, n) == (r * n) \div 100

\* child.some(c => c?.id === city.id)
InChild(child, city) == \E k \in 1..Len(child) : child[k].id = city.id

\* the while loop left out: parent2's cities are taken as they come
SkipNothing(child, path2, idx) == idx

\* the while loop: the first index of parent2 at or after idx whose city is
\* not in the child
RECURSIVE SkipPresent(_, _, _)
SkipPresent(child, path2, idx) ==
  IF InChild(child, path2[idx]) THEN SkipPresent(child, path2, idx + 1) ELSE idx

\* the for loop that fills the empty positions from parent2
RECURSIVE FillFrom(_, _, _, _)
FillFrom(child, i, parent2Idx, path2) ==
  IF i > Len(child) THEN child
  ELSE IF child[i] # Null THEN FillFrom(child, i + 1, parent2Idx, path2)
  ELSE LET k == SkipPresent(child, path2, parent2Idx)
       IN  FillFrom([child EXCEPT ![i] = path2[k]], i + 1, k + 1, path2)

\* the cut points [min, max], 0-based as in the code
CutPoints(n, rs, re) ==
  LET start == RandomIndex(rs, n)
      end   == RandomIndex(re, n)
  IN  IF start < end THEN <<start, end>> ELSE <<end, start>>

crossover(parent1, parent2, crossoverRate, r, rs, re) ==
  IF r > crossoverRate THEN parent1.path
  ELSE LET pathLength == Len(parent1.path)
           cut   == CutPoints(pathLength, rs, re)
           child == [i \in 1..pathLength |->
                       IF cut[1] <= i - 1 /\ i - 1 <= cut[2]
                       THEN parent1.path[i] ELSE Null]
       IN  FillFrom(child, 1, 1, parent2.path)

(***************************************************************************)
(* mutate: swap mutation.  r, ri and rj are the draws of Math.random().    *)
(***************************************************************************)
mutate(path, mutationRate, r, ri, rj) ==
  IF r > mutationRate THEN path
  ELSE SwapAt(path, RandomIndex(ri, Len(path)) + 1, RandomIndex(rj, Len(path)) + 1)

(***************************************************************************)
(* gaIteration's loop body: the children one pass of the while loop can    *)
(* produce from a population, over every outcome of its eight draws.       *)
(***************************************************************************)
Parents(pop) == {select(pop, r) : r \in RandomDraws}

Crossed(pop, cfg) ==
  UNION {{crossover(p1, p2, cfg.crossoverRate, r, rs, re) :
            r \in RandomDraws, rs \in RandomDraws, re \in RandomDraws} :
         p1 \in Parents(pop), p2 \in Parents(pop)}

Mutated(pop, cfg) ==
  UNION {{mutate(path, cfg.mutationRate, r, ri, rj) :
            r \in RandomDraws, ri \in RandomDraws, rj \in RandomDraws} :
         path \in Crossed(pop, cfg)}

Children(pop, cfg) == {Individual(path) : path \in Mutated(pop, cfg)}

\* the new population: the elite, then children until populationSize
NewPopulations(pop, cfg) ==
  LET elite == Sort(pop, "fitness")[1]
      nkids == IF cfg.populationSize > 1 THEN cfg.populationSize - 1 ELSE 0
      kids  == Children(pop, cfg)
  IN  {<<elite>> \o k : k \in [1..nkids -> kids]}

(***************************************************************************)
(* The component.                                                          *)
(*                                                                         *)
(* cities, population, bestIndividual, currentGen, isRunning and config    *)
(* are the useState slots; animationRef is the ref (0 is null).  timers is *)
(* the browser's set of live intervals: each holds the gaIteration of the  *)
(* render in which toggleRun created it, that is, that render's            *)
(* currentGen, population, bestIndividual and config (and isRunning =      *)
(* false, since toggleRun starts a timer only in its else branch, so the   *)
(* requestAnimationFrame of gaIteration is never reached).  phase is       *)
(* "reset" or "step" while the render that follows reset() or a generation *)
(* step is still to come, and "idle" once the component has rendered.  The *)
(* other handlers leave population as the render before them sorted it, so *)
(* the render that follows them changes no slot and is not a step of the   *)
(* model.  mounted is false once an error thrown in the effect has         *)
(* unmounted the component.  fn is the record of the operator harness      *)
(* (SpecFn), constant under Spec.                                          *)
(***************************************************************************)
VARIABLES cities, population, bestIndividual, currentGen, isRunning, config,
          animationRef, timers, phase, mounted, fn

vars == <<cities, population, bestIndividual, currentGen, isRunning, config,
          animationRef, timers, phase, mounted, fn>>

\* the values the four inputs are given (rates in hundredths); the first of
\* each is the useState default, scaled for the two counts
CityCountInputs == {NCities, NCities - 1, 1}
PopulationSizeInputs == {NPop, 0}
MutationRateInputs == {5, 150}
CrossoverRateInputs == {80, 0}

DefaultConfig ==
  [cityCount |-> NCities, populationSize |-> NPop,
   mutationRate |-> 5, crossoverRate |-> 80]

\* the generation counters the model starts from
StartGens == {0, MaxGenerations - 1}

\* the generation counters at which the model explores a generation step:
\* StepsFromZero steps from 0 and StepsNearCeiling steps from the last
\* generation below the ceiling
InWindow(g) ==
  \/ g < StepsFromZero
  \/ MaxGenerations - 1 <= g /\ g < MaxGenerations - 1 + StepsNearCeiling

NoFn == [op |-> "none"]

\* reset() taking the first individual for the best one, without the sort
ResetResultUnsorted(cfg, d, shuffles) ==
  LET newCities     == generateCities(cfg.cityCount, d)
      newPopulation == initPopulation(shuffles)
  IN  [cities |-> newCities, population |-> newPopulation,
       bestIndividual |-> newPopulation[1]]

\* the state reset() leaves, as a record of the slots it sets
ResetResult(cfg, d, shuffles) ==
  LET newCities     == generateCities(cfg.cityCount, d)
      newPopulation == initPopulation(shuffles)
      initBest      == Sort(newPopulation, "length")[1]
  IN  [cities |-> newCities, population |-> newPopulation, bestIndividual |-> initBest]

\* the shuffles the populationSize calls of sort can return
ShuffleSeqs(cfg, d) ==
  [1..cfg.populationSize -> ShuffleDraws(generateCities(cfg.cityCount, d))]

\* reset(): with an empty population initBest is undefined and initBest.path
\* throws; thrown in the effect, the error unmounts the component, whose
\* state slots and ref are gone (the browser's timers are not)
ResetWith(cfg) ==
  IF cfg.populationSize < 1
  THEN /\ mounted' = FALSE
       /\ phase' = "crashed"
       /\ cities' = <<>>
       /\ population' = <<>>
       /\ bestIndividual' = Individual(<<>>)
       /\ currentGen' = 0
       /\ isRunning' = FALSE
       /\ animationRef' = 0
       /\ UNCHANGED timers
  ELSE \E d \in CoordDraws : \E shuffles \in ShuffleSeqs(cfg, d) :
         LET res == ResetResult(cfg, d, shuffles)
         IN  /\ isRunning' = FALSE
             \* cancelAnimationFrame does not clear an interval
             /\ animationRef' = 0
             /\ cities' = res.cities
             /\ population' = res.population
             /\ bestIndividual' = res.bestIndividual
             /\ currentGen' = 0
             /\ phase' = "reset"
             /\ UNCHANGED <<timers, mounted>>

Ready == mounted /\ phase = "idle"

\* the reset button (disabled while running)
Reset ==
  /\ Ready /\ ~isRunning
  /\ ResetWith(config)
  /\ UNCHANGED <<config, fn>>

\* the cityCount input (disabled while running): setConfig, and the effect
\* on [config.cityCount, config.populationSize] calls reset()
SetCityCount ==
  /\ Ready /\ ~isRunning
  /\ \E v \in CityCountInputs \ {config.cityCount} :
       /\ config' = [config EXCEPT !.cityCount = v]
       /\ ResetWith(config')
  /\ UNCHANGED fn

SetPopulationSize ==
  /\ Ready /\ ~isRunning
  /\ \E v \in PopulationSizeInputs \ {config.populationSize} :
       /\ config' = [config EXCEPT !.populationSize = v]
       /\ ResetWith(config')
  /\ UNCHANGED fn

SetMutationRate ==
  /\ Ready /\ ~isRunning
  /\ \E v \in MutationRateInputs \ {config.mutationRate} :
       config' = [config EXCEPT !.mutationRate = v]
  /\ UNCHANGED <<cities, population, bestIndividual, currentGen, isRunning,
                 animationRef, timers, phase, mounted, fn>>

SetCrossoverRate ==
  /\ Ready /\ ~isRunning
  /\ \E v \in CrossoverRateInputs \ {config.crossoverRate} :
       config' = [config EXCEPT !.crossoverRate = v]
  /\ UNCHANGED <<cities, population, bestIndividual, currentGen, isRunning,
                 animationRef, timers, phase, mounted, fn>>

\* What gaIteration of a render reads.  At or above the ceiling it reads
\* currentGen and returns, so a timer created by such a render keeps
\* currentGen alone; below the ceiling it reads all four slots.
Closure(id) ==
  IF currentGen >= MaxGenerations
  THEN [id |-> id, currentGen |-> currentGen, population |-> <<>>,
        bestIndividual |-> Individual(<<>>), config |-> DefaultConfig]
  ELSE [id |-> id, currentGen |-> currentGen, population |-> population,
        bestIndividual |-> bestIndividual, config |-> config]

TimerIds == {t.id : t \in timers}

\* window.setInterval returns a handle no live timer has
NewTimerId == CHOOSE i \in 1..(Cardinality(timers) + 1) : i \notin TimerIds

\* toggleRun, isRunning false: start
Start ==
  /\ Ready /\ ~isRunning
  /\ Cardinality(timers) < MaxTimers
  /\ isRunning' = TRUE
  /\ animationRef' = NewTimerId
  /\ timers' = timers \cup {Closure(NewTimerId)}
  /\ UNCHANGED <<cities, population, bestIndividual, currentGen, config, phase,
                 mounted, fn>>

\* toggleRun, isRunning true: pause
Pause ==
  /\ Ready /\ isRunning
  /\ isRunning' = FALSE
  /\ IF animationRef # 0
     THEN /\ timers' = {t \in timers : t.id # animationRef}
          /\ animationRef' = 0
     ELSE UNCHANGED <<timers, animationRef>>
  /\ UNCHANGED <<cities, population, bestIndividual, currentGen, config, phase,
                 mounted, fn>>

\* gaIteration as timer t calls it, at the generation ceiling
TickCeiling(t) ==
  /\ Ready
  /\ t.currentGen >= MaxGenerations
  /\ isRunning' = FALSE
  /\ UNCHANGED <<cities, population, bestIndividual, currentGen, config,
                 animationRef, timers, phase, mounted, fn>>

\* gaIteration as timer t calls it, below the ceiling: one generation step
TickStep(t) ==
  /\ Ready
  /\ t.currentGen < MaxGenerations
  /\ InWindow(currentGen)
  /\ \E newPopulation \in NewPopulations(t.population, t.config) :
       LET currentBest == Sort(newPopulation, "length")[1]
       IN  /\ population' = newPopulation
           /\ bestIndividual' =
                IF currentBest.length < t.bestIndividual.length
                THEN currentBest ELSE bestIndividual
  \* setCurrentGen((prev) => prev + 1)
  /\ currentGen' = currentGen + 1
  /\ phase' = "step"
  /\ UNCHANGED <<cities, isRunning, config, animationRef, timers, mounted, fn>>

\* an interval fires: the browser calls the gaIteration the timer holds
StepTick == \E t \in timers : TickStep(t)

CeilingTick == \E t \in timers : TickCeiling(t)

\* the render after reset() or a generation step: the statistics panel
\* sorts population in place
Render ==
  /\ mounted /\ phase \in {"reset", "step"}
  /\ population' = Sort(population, "length")
  /\ phase' = "idle"
  /\ UNCHANGED <<cities, bestIndividual, currentGen, isRunning, config,
                 animationRef, timers, mounted, fn>>

\* The component after mount (the effect's reset() and its render) at
\* generation 0, or paused at the last generation below the ceiling with the
\* population of the reset: a run reaches that state by generation steps
\* that each install the population they started from (the elite is its
\* first individual, and a child can be a copy of the second: see
\* ReproducedPopulation).
Init ==
  /\ config = DefaultConfig
  /\ \E d \in CoordDraws : \E shuffles \in ShuffleSeqs(DefaultConfig, d) :
       LET res == ResetResult(DefaultConfig, d, shuffles)
       IN  /\ cities = res.cities
           /\ population = Sort(res.population, "length")
           /\ bestIndividual = res.bestIndividual
  /\ currentGen \in StartGens
  /\ isRunning = FALSE
  /\ animationRef = 0
  /\ timers = {}
  /\ phase = "idle"
  /\ mounted = TRUE
  /\ fn = NoFn

Next ==
  \/ Reset
  \/ SetCityCount
  \/ SetPopulationSize
  \/ SetMutationRate
  \/ SetCrossoverRate
  \/ Start
  \/ Pause
  \/ StepTick
  \/ CeilingTick
  \/ Render

Spec == Init /\ [][Next]_vars

(***************************************************************************)
(* The operators on their own: two parent tours drawn from all the orders  *)
(* of the cities, then one call of crossover, mutate or initPopulation.    *)
(***************************************************************************)
FnCities == generateCities(NCities, 0)

Orders(c) ==
  {p \in [1..Len(c) -> {c[i] : i \in 1..Len(c)}] :
     \A i, j \in 1..Len(c) : i # j => p[i] # p[j]}

\* the rates the operators are called with, in hundredths
FnRates == {0, 50, 100}

FnInit ==
  /\ config = DefaultConfig
  /\ cities = FnCities
  /\ population = initPopulation([i \in 1..NPop |-> FnCities])
  /\ bestIndividual = Individual(FnCities)
  /\ currentGen = 0
  /\ isRunning = FALSE
  /\ animationRef = 0
  /\ timers = {}
  /\ phase = "idle"
  /\ mounted = TRUE
  /\ \E p1 \in Orders(FnCities), p2 \in Orders(FnCities) :
       fn = [op |-> "input", parent1 |-> Individual(p1), parent2 |-> Individual(p2),
             rate |-> 0, draws |-> <<>>, out |-> <<>>]

machine == <<cities, population, bestIndividual, currentGen, isRunning, config,
             animationRef, timers, phase, mounted>>

FnCrossover ==
  /\ fn.op = "input"
  /\ \E rate \in FnRates, r \in RandomDraws, rs \in RandomDraws, re \in RandomDraws :
       fn' = [fn EXCEPT !.op = "crossover", !.rate = rate, !.draws = <<r, rs, re>>,
                        !.out = crossover(fn.parent1, fn.parent2, rate, r, rs, re)]
  /\ UNCHANGED machine

FnMutate ==
  /\ fn.op = "input"
  /\ \E rate \in FnRates, r \in RandomDraws, ri \in RandomDraws, rj \in RandomDraws :
       fn' = [fn EXCEPT !.op = "mutate", !.rate = rate, !.draws = <<r, ri, rj>>,
                        !.out = mutate(fn.parent1.path, rate, r, ri, rj)]
  /\ UNCHANGED machine

\* initPopulation whose two sort calls return the two drawn orders
FnInitPopulation ==
  /\ fn.op = "input"
  /\ \E i \in 1..2 :
       fn' = [fn EXCEPT !.op = "initPopulation", !.draws = <<i>>,
                        !.out = initPopulation(<<fn.parent1.path, fn.parent2.path>>)[i].path]
  /\ UNCHANGED machine

FnNext ==
  \/ FnCrossover
  \/ FnMutate
  \/ FnInitPopulation

SpecFn == FnInit /\ [][FnNext]_vars

(***************************************************************************)
(* Properties.                                                             *)
(***************************************************************************)
\* a rendered population is in order of length
IdleSorted == Ready => population = Sort(population, "length")

\* a generation step has installed the population and kept the best-ever
\* record of the render its timer was created in
ReproducedPopulation ==
  /\ phase = "step" /\ currentGen = 1
  /\ \E t \in timers : t.population = population /\ t.bestIndividual = bestIndividual

\* path holds each city of c exactly once
IsPermutationOf(path, c) ==
  /\ Len(path) = Len(c)
  /\ \A i \in 1..Len(c) : Cardinality({k \in 1..Len(path) : path[k] = c[i]}) = 1

ValidConfig(cfg) ==
  /\ cfg.cityCount >= 2
  /\ cfg.populationSize >= 1
  /\ 0 <= cfg.mutationRate /\ cfg.mutationRate <= 100
  /\ 0 <= cfg.crossoverRate /\ cfg.crossoverRate <= 100

Members(pop) == {pop[i] : i \in 1..Len(pop)}

IsShortest(ind, pop) == \A other \in Members(pop) : ind.length <= other.length

\* C1: every individual of the population of every reachable state is a
\* permutation of the city set (each city exactly once), the tours being
\* those initPopulation, crossover and mutate produced; stated for the
\* states whose configuration is valid.
C1_PopulationPermutations ==
  mounted /\ ValidConfig(config) =>
    \A ind \in Members(population) : IsPermutationOf(ind.path, cities)

\* The operators alone: the tour crossover, mutate or initPopulation returns
\* for parents that are permutations of the cities is a permutation of them,
\* whatever the rate and the draws.
FnPermutation ==
  fn.op \in {"crossover", "mutate", "initPopulation"}
    => IsPermutationOf(fn.out, FnCities)

\* C2: a generation step never makes the recorded best-ever length longer.
C2_BestEverNonIncreasing ==
  [][phase' = "step" => bestIndividual'.length <= bestIndividual.length]_vars

\* C3: the generation counter never exceeds the ceiling.
C3_CounterBelowCeiling == currentGen <= MaxGenerations

\* C4: with crossoverRate = 0, crossover returns parent1's tour, whatever
\* the draw.
C4_PassThroughAtRateZero ==
  fn.op = "crossover" /\ fn.rate = 0 => fn.out = fn.parent1.path

\* C5: the render of the statistics panel leaves the population, the order
\* of its individuals included, the best-ever record and the generation
\* counter as they were.
C5_RenderReadsOnly ==
  [][Render => UNCHANGED <<population, bestIndividual, currentGen>>]_vars

\* C6: right after reset with a valid configuration the generation counter
\* is 0, the population has populationSize individuals, every tour has
\* cityCount points, and the best-ever record is an individual of the
\* population that no other is shorter than.
C6_AfterReset ==
  phase = "reset" /\ ValidConfig(config) =>
    /\ currentGen = 0
    /\ Len(population) = config.populationSize
    /\ \A ind \in Members(population) : Len(ind.path) = config.cityCount
    /\ bestIndividual \in Members(population)
    /\ IsShortest(bestIndividual, population)

\* a reset with a valid configuration whose population is not in order of
\* length: the best-ever record is its second individual
C6_Witness ==
  /\ phase = "reset" /\ ValidConfig(config)
  /\ Len(population) = NPop
  /\ population[1].length > population[2].length
  /\ bestIndividual = population[2]

\* C7: under an invalid configuration no population is initialized and no
\* generation step runs.
C7_InvalidConfigRejected ==
  ~ValidConfig(config) => phase \notin {"reset", "step"}

\* C8: the population a generation step installs contains the individual of
\* highest fitness of the population it replaces, and its shortest length is
\* not longer than the shortest length before the step.
C8_EliteCarriedOver ==
  [][phase' = "step" =>
       /\ Sort(population, "fitness")[1] \in Members(population')
       /\ Sort(population', "length")[1].length <= Sort(population, "length")[1].length]_vars

\* the positions [min, max] of a performed crossover, 1-based
FnSegment ==
  LET n == Len(fn.parent1.path)
      a == RandomIndex(fn.draws[2], n)
      b == RandomIndex(fn.draws[3], n)
  IN  IF a <= b THEN (a + 1)..(b + 1) ELSE (b + 1)..(a + 1)

\* the elements of seq at the positions outside seg, left to right
RECURSIVE Outside(_, _, _)
Outside(seq, seg, i) ==
  IF i > Len(seq) THEN <<>>
  ELSE (IF i \in seg THEN <<>> ELSE <<seq[i]>>) \o Outside(seq, seg, i + 1)

\* the elements of seq that are not in set, left to right
RECURSIVE Without(_, _, _)
Without(seq, set, i) ==
  IF i > Len(seq) THEN <<>>
  ELSE (IF seq[i] \in set THEN <<>> ELSE <<seq[i]>>) \o Without(seq, set, i + 1)

FnPerformed == fn.op = "crossover" /\ fn.draws[1] <= fn.rate

C10_RunningIffOneTimer ==
  /\ isRunning <=> timers # {}
  /\ Cardinality(timers) <= 1

====
